---- MODULE Spec2Model ----
(***************************************************************************)
(* redb-tui: a terminal browser for a redb database file.                  *)
(*                                                                         *)
(* The model follows one run of the process: main (src/src/main.rs)        *)
(* creates the dummy database when the path does not exist, builds a       *)
(* TuiWrapper (raw mode, alternate screen, Tui::new), runs the draw/input  *)
(* loop of Tui::run and drops the wrapper.  The terminal, the database     *)
(* file and the key events are the environment: every fallible call of the *)
(* code is an input that may succeed or fail.                              *)
(*                                                                         *)
(* Vec indices are 0-based as in the code; the TLA+ sequences that model   *)
(* the vectors are 1-based, so table_names.get(i) reads element i + 1.     *)
(* Option<usize> is modelled as a sequence: None is <<>>, Some(i) is <<i>>.*)
(* A String shown on screen is modelled as the sequence of its characters. *)
(***************************************************************************)
EXTENDS Integers, Sequences, FiniteSets, TLC

(***************************************************************************)
(* Bounds of the model.                                                    *)
(***************************************************************************)
\* largest number of tables of a database that already exists on disk
MaxTables == 3
\* largest number of entries of a table of such a database
MaxEntries == 2
\* width of usize in bits.  The code runs with 64 bits; TLC's integers are
\* 32 bits wide, so the width is scaled down.  Only the wrap-around of
\* 0 - 1 to the largest usize depends on it.
UsizeBits == 4

\* largest length of the database file, in pages
MaxFileLen == 2

UsizeModulus == 2 ^ UsizeBits

(***************************************************************************)
(* Option<usize>                                                           *)
(***************************************************************************)
None == << >>
Some(i) == << i >>
IsSome(o) == Len(o) = 1
Unwrap(o) == o[1]
UnwrapOr(o, d) == IF IsSome(o) THEN o[1] ELSE d

Min(a, b) == IF a <= b THEN a ELSE b

(***************************************************************************)
(* The database file.  A table is a name and its entries, a sequence of    *)
(* <<raw key bytes, raw value bytes>> in the engine's key order.  A        *)
(* database is the sequence of its tables in the order list_tables yields. *)
(***************************************************************************)
\* u32 values are stored little-endian on 4 bytes, &str as its UTF-8 bytes
U32Bytes(n) == << n % 256, (n \div 256) % 256, (n \div 65536) % 256, 0 >>

UsersTable ==
    [name |-> "users",
     entries |-> << << <<65, 108, 105, 99, 101>>, U32Bytes(25) >>,
                    << <<66, 111, 98>>, U32Bytes(30) >>,
                    << <<67, 104, 97, 114, 108, 105, 101>>, U32Bytes(35) >> >>]

ProductsTable ==
    [name |-> "products",
     entries |-> << << U32Bytes(1), <<76, 97, 112, 116, 111, 112>> >>,
                    << U32Bytes(2), <<80, 104, 111, 110, 101>> >>,
                    << U32Bytes(3), <<84, 97, 98, 108, 101, 116>> >>,
                    << U32Bytes(4), <<75, 101, 121, 98, 111, 97, 114, 100>> >>,
                    << U32Bytes(5), <<87, 105, 45, 102, 105, 32, 114, 111,
                                      117, 116, 101, 114>> >>,
                    << U32Bytes(6), <<84, 114, 101, 101>> >> >>]

\* create_dummy_database writes users and products in one transaction; the
\* order in which the engine lists them afterwards is the engine's.
DummyDatabases == { <<UsersTable, ProductsTable>>, <<ProductsTable, UsersTable>> }

\* Databases found on disk at startup: 0..MaxTables tables, each of
\* 0..MaxEntries entries, keys of the lengths the byte interpreter
\* distinguishes, in ascending byte order.
TableNamePool == << "accounts", "blobs", "counters", "events", "flags",
                    "items", "logs", "orders" >>
EntryPool == << << << >>, <<1>> >>,
                << <<0>>, <<7>> >>,
                << <<1>>, <<44, 1>> >>,
                << <<2, 1>>, <<25, 0, 0, 0>> >>,
                << <<9, 0, 0, 0>>, <<3, 0, 0, 0, 0, 0, 0, 0>> >>,
                << <<200>>, <<104, 105, 33>> >> >>
StoredTable(k, cnt) ==
    [name |-> TableNamePool[k],
     entries |-> SubSeq(EntryPool, 1, Min(cnt, Len(EntryPool)))]
ExistingDatabases ==
    UNION { { [k \in 1..n |-> StoredTable(k, cnts[k])] :
                cnts \in [1..n -> 0..MaxEntries] } :
            n \in 0..Min(MaxTables, Len(TableNamePool)) }

\* The length of the file, which fs::metadata reports.
FileLens == 1..MaxFileLen

\* Database::stats: of the five fields only stored_bytes is modelled, the
\* bytes of the keys and values of every table.
RECURSIVE EntryBytes(_)
EntryBytes(entries) ==
    IF entries = << >> THEN 0
    ELSE Len(entries[1][1]) + Len(entries[1][2]) + EntryBytes(Tail(entries))
RECURSIVE StoredBytes(_)
StoredBytes(tables) ==
    IF tables = << >> THEN 0
    ELSE EntryBytes(tables[1].entries) + StoredBytes(Tail(tables))
DatabaseStats(tables) == [stored_bytes |-> StoredBytes(tables)]

(***************************************************************************)
(* State                                                                   *)
(***************************************************************************)
VARIABLES
    pc,                     \* position of main: "main", "draw", "read",
                            \*   "returned" (run is over, wrapper alive), "exit"
    outcome,                \* "running", "Ok", "Err", "Panic", "Abort"
    overflow_checks,        \* build: are arithmetic overflow checks compiled in
    db_file,                \* the file at database_path: [exists, tables, len]
    raw_mode,               \* terminal is in raw mode
    alt_screen,             \* terminal shows the alternate screen
    raw_enters,             \* number of successful enable_raw_mode calls
    drops,                  \* number of runs of Drop for TuiWrapper
    wrapper,                \* a TuiWrapper value is alive
    table_names,            \* Tui.table_names
    list_state,             \* Tui.list_state.selected()
    db_properties,          \* Tui.db_properties
    selected_table_content, \* Tui.selected_table_content
    content_for,            \* the selection the content was last filled for
    key,                    \* the event handled by the current loop iteration
    selected_before,        \* list_state when that event was read
    frame,                  \* what the last completed draw put on screen
    write_txn,              \* the last write transaction begun on Tui.db:
                            \*   "none", "aborted" or "committed"
    iter_stats_queries,     \* get_database_stats calls since the last event
    trail                   \* the latest Down and Up keys handled, oldest first,
                            \*   each with the cursor it was read at; recorded
                            \*   only where navigation is studied on its own

vars == << pc, outcome, overflow_checks, db_file, raw_mode, alt_screen,
           raw_enters, drops, wrapper, table_names, list_state, db_properties,
           selected_table_content, content_for, key, selected_before, frame,
           write_txn, iter_stats_queries, trail >>

tui_vars == << table_names, list_state, db_properties, selected_table_content,
               content_for >>
term_vars == << raw_mode, alt_screen, raw_enters, drops, wrapper >>
stat_vars == << write_txn, iter_stats_queries >>

NoStatus == [num_tables |-> 0, file_size |-> 0, stats |-> DatabaseStats(<< >>)]
NoFrame == [drawn |-> FALSE, title |-> "", content |-> << >>,
            selected |-> None, content_for |-> None, status |-> NoStatus]

Init ==
    /\ pc = "main"
    /\ outcome = "running"
    /\ overflow_checks \in BOOLEAN
    /\ db_file \in { [exists |-> FALSE, tables |-> << >>, len |-> 0] }
                   \cup { [exists |-> TRUE, tables |-> d, len |-> n] :
                            d \in ExistingDatabases, n \in FileLens }
    /\ raw_mode = FALSE
    /\ alt_screen = FALSE
    /\ raw_enters = 0
    /\ drops = 0
    /\ wrapper = FALSE
    /\ table_names = << >>
    /\ list_state = None
    /\ db_properties = [file_size |-> 0, num_tables |-> 0]
    /\ selected_table_content = << >>
    /\ content_for = None
    /\ key = "none"
    /\ selected_before = None
    /\ frame = NoFrame
    /\ write_txn = "none"
    /\ iter_stats_queries = 0
    /\ trail = << >>

(***************************************************************************)
(* usize arithmetic.  a - b on usize overflows when a < b: a build with    *)
(* overflow checks panics there, a build without them wraps modulo 2^w.    *)
(***************************************************************************)
SubOverflows(a, b) == a < b
WrappingSub(a, b) == (a - b) % UsizeModulus

(***************************************************************************)
(* Tui::next and Tui::previous: the index they select, and whether the     *)
(* subtraction table_names.len() - 1 they evaluate on the way overflows.   *)
(***************************************************************************)
next_overflows(selected, len) ==
    IsSome(selected) /\ SubOverflows(len, 1)

\* next with the comparison off by one: wraps one step late
next_index_late_wrap(selected, len) ==
    IF IsSome(selected)
    THEN IF Unwrap(selected) >= len THEN 0 ELSE Unwrap(selected) + 1
    ELSE 0

\* next that stays on the last table instead of wrapping
next_index_saturating(selected, len) ==
    IF IsSome(selected)
    THEN IF Unwrap(selected) >= WrappingSub(len, 1)
         THEN Unwrap(selected) ELSE Unwrap(selected) + 1
    ELSE 0

next_index(selected, len) ==
    IF IsSome(selected)
    THEN IF Unwrap(selected) >= WrappingSub(len, 1) THEN 0 ELSE Unwrap(selected) + 1
    ELSE 0

previous_overflows(selected, len) ==
    IsSome(selected) /\ Unwrap(selected) = 0 /\ SubOverflows(len, 1)

\* previous that wraps to len instead of len - 1
previous_index_wraps_to_len(selected, len) ==
    IF IsSome(selected)
    THEN IF Unwrap(selected) = 0 THEN len ELSE Unwrap(selected) - 1
    ELSE 0

\* previous that stops at the first table instead of wrapping
previous_index_saturating(selected, len) ==
    IF IsSome(selected)
    THEN IF Unwrap(selected) = 0 THEN 0 ELSE Unwrap(selected) - 1
    ELSE 0

\* previous without the branch for index 0: i - 1 on usize
previous_index_unguarded(selected, len) ==
    IF IsSome(selected) THEN WrappingSub(Unwrap(selected), 1) ELSE 0

previous_index(selected, len) ==
    IF IsSome(selected)
    THEN IF Unwrap(selected) = 0 THEN WrappingSub(len, 1) ELSE Unwrap(selected) - 1
    ELSE 0

(***************************************************************************)
(* Tui::update_selected_table_content: when the selection denotes a table  *)
(* the content becomes eight ("Key", "Value") rows; otherwise it is left   *)
(* as it was.  The database is not read.                                   *)
(***************************************************************************)
DummyRows == 8
KeyText == << "K", "e", "y" >>
ValueText == << "V", "a", "l", "u", "e" >>
DummyContent == [j \in 1..DummyRows |-> << KeyText, ValueText >>]

DenotesTable(selected, names) == IsSome(selected) /\ Unwrap(selected) < Len(names)

update_selected_table_content(selected, names, old) ==
    IF DenotesTable(selected, names) THEN DummyContent ELSE old

\* the selection the content was filled for (the table_name bound at the
\* refresh), unchanged when the refresh does nothing
update_content_for(selected, names, old) ==
    IF DenotesTable(selected, names) THEN selected ELSE old

(***************************************************************************)
(* main up to the construction of the wrapper                              *)
(***************************************************************************)
\* main: the path does not exist, create_dummy_database(path)?
CreateDummyDatabase ==
    /\ pc = "main"
    /\ ~db_file.exists
    /\ \E ok \in BOOLEAN :
         IF ok
         THEN /\ \E d \in DummyDatabases, n \in FileLens :
                    db_file' = [exists |-> TRUE, tables |-> d, len |-> n]
              /\ UNCHANGED << pc, outcome >>
         ELSE /\ pc' = "exit"
              /\ outcome' = "Err"
              /\ UNCHANGED db_file
    /\ UNCHANGED << overflow_checks, term_vars, tui_vars, key, selected_before,
                    frame, stat_vars >>

\* Tui::new: the fields of the new Tui
tui_table_names(tables) == [k \in 1..Len(tables) |-> tables[k].name]
tui_list_state(names) == Some(0)
tui_selected_table_content == << >>
tui_db_properties(file, names) == [file_size |-> file.len, num_tables |-> Len(names)]

\* the fallible calls of TuiWrapper::new and Tui::new, in the order of the code
StartupCalls == << "enable_raw_mode", "EnterAlternateScreen", "Database::open",
                   "Terminal::new", "get_table_names", "fs::metadata" >>
CallIndex(c) == CHOOSE k \in 1..Len(StartupCalls) : StartupCalls[k] = c

\* main: TuiWrapper::new(path) returns Ok(tui)
TuiWrapperNewOk ==
    /\ pc = "main"
    /\ db_file.exists
    /\ raw_mode' = TRUE
    /\ alt_screen' = TRUE
    /\ raw_enters' = raw_enters + 1
    /\ wrapper' = TRUE
    /\ table_names' = tui_table_names(db_file.tables)
    /\ list_state' = tui_list_state(table_names')
    /\ db_properties' = tui_db_properties(db_file, table_names')
    /\ selected_table_content' = tui_selected_table_content
    /\ content_for' = None
    /\ pc' = "draw"
    /\ UNCHANGED << outcome, overflow_checks, db_file, drops, key, selected_before,
                    frame, stat_vars >>

\* a main that logs the startup error and still returns Ok
TuiWrapperNewErrReturnsOk ==
    /\ pc = "main"
    /\ db_file.exists
    /\ \E failed \in { StartupCalls[k] : k \in 1..Len(StartupCalls) } :
         /\ raw_mode' = (CallIndex(failed) > CallIndex("enable_raw_mode"))
         /\ alt_screen' = (CallIndex(failed) > CallIndex("EnterAlternateScreen"))
         /\ raw_enters' = IF raw_mode' THEN raw_enters + 1 ELSE raw_enters
    /\ pc' = "exit"
    /\ outcome' = "Ok"
    /\ UNCHANGED << overflow_checks, db_file, drops, wrapper, tui_vars, key,
                    selected_before, frame, stat_vars >>

\* main: one of the calls returns Err, `?` returns it from TuiWrapper::new
\* before a TuiWrapper exists, and main returns it
TuiWrapperNewErr ==
    /\ pc = "main"
    /\ db_file.exists
    /\ \E failed \in { StartupCalls[k] : k \in 1..Len(StartupCalls) } :
         /\ raw_mode' = (CallIndex(failed) > CallIndex("enable_raw_mode"))
         /\ alt_screen' = (CallIndex(failed) > CallIndex("EnterAlternateScreen"))
         /\ raw_enters' = IF raw_mode' THEN raw_enters + 1 ELSE raw_enters
    /\ pc' = "exit"
    /\ outcome' = "Err"
    /\ UNCHANGED << overflow_checks, db_file, drops, wrapper, tui_vars, key,
                    selected_before, frame, stat_vars >>

(***************************************************************************)
(* Tui::run: one iteration is a draw followed by one event                 *)
(***************************************************************************)
\* List's stateful render (the call at the end of render_table_list) takes
\* the ListState by &mut: unless the list area is empty it deselects when
\* there are no items and clamps a selection past the end to the last item.
render_table_list(selected, n, area_empty) ==
    IF area_empty THEN selected
    ELSE IF n = 0 THEN None
    ELSE IF IsSome(selected) /\ Unwrap(selected) >= n THEN Some(n - 1)
    ELSE selected

NoTableSelected == "No table selected"
selected_table(selected, names) ==
    IF UnwrapOr(selected, 0) < Len(names)
    THEN names[UnwrapOr(selected, 0) + 1]
    ELSE NoTableSelected

\* a statistics query that commits its write transaction
get_database_stats_committing(tables) ==
    [committed |-> TRUE, stats |-> DatabaseStats(tables)]

\* database::get_database_stats: begins a write transaction, reads the
\* statistics from it and drops it without a commit
get_database_stats(tables) ==
    [committed |-> FALSE, stats |-> DatabaseStats(tables)]
\* the write transaction of a statistics query, once the query has returned
txn_of(query) == IF query.committed THEN "committed" ELSE "aborted"

\* the status line: the fields of db_properties and of the query's result
bottom_status(properties, stats) ==
    [num_tables |-> properties.num_tables,
     file_size |-> properties.file_size,
     stats |-> stats]

\* a draw that shows the statistics of the frame before and makes no query
DrawFrameCachedStats ==
    /\ pc = "draw"
    /\ \E area_empty \in BOOLEAN :
         list_state' = render_table_list(list_state, Len(table_names), area_empty)
    /\ frame' = [drawn |-> TRUE,
                 title |-> selected_table(list_state', table_names),
                 content |-> selected_table_content,
                 selected |-> list_state',
                 content_for |-> content_for,
                 status |-> bottom_status(db_properties, frame.status.stats)]
    /\ key' = "none"
    /\ selected_before' = None
    /\ pc' = "read"
    /\ UNCHANGED << outcome, overflow_checks, db_file, term_vars, table_names,
                    db_properties, selected_table_content, content_for, stat_vars >>

\* a draw that reads the length of the file again for the status line
DrawFrameRereadsFileSize ==
    /\ pc = "draw"
    /\ \E area_empty \in BOOLEAN :
         list_state' = render_table_list(list_state, Len(table_names), area_empty)
    /\ db_properties' = tui_db_properties(db_file, table_names)
    /\ LET query == get_database_stats(db_file.tables)
       IN  /\ frame' = [drawn |-> TRUE,
                        title |-> selected_table(list_state', table_names),
                        content |-> selected_table_content,
                        selected |-> list_state',
                        content_for |-> content_for,
                        status |-> bottom_status(db_properties', query.stats)]
           /\ write_txn' = txn_of(query)
    /\ iter_stats_queries' = iter_stats_queries + 1
    /\ key' = "none"
    /\ selected_before' = None
    /\ pc' = "read"
    /\ UNCHANGED << outcome, overflow_checks, db_file, term_vars, table_names,
                    selected_table_content, content_for >>

\* terminal.draw(..) returns Ok
DrawFrame ==
    /\ pc = "draw"
    /\ \E area_empty \in BOOLEAN :
         list_state' = render_table_list(list_state, Len(table_names), area_empty)
    /\ LET query == get_database_stats(db_file.tables)
       IN  /\ frame' = [drawn |-> TRUE,
                        title |-> selected_table(list_state', table_names),
                        content |-> selected_table_content,
                        selected |-> list_state',
                        content_for |-> content_for,
                        status |-> bottom_status(db_properties, query.stats)]
           /\ write_txn' = txn_of(query)
    /\ iter_stats_queries' = iter_stats_queries + 1
    /\ key' = "none"
    /\ selected_before' = None
    /\ pc' = "read"
    /\ UNCHANGED << outcome, overflow_checks, db_file, term_vars, table_names,
                    db_properties, selected_table_content, content_for >>

\* terminal.draw(..) returns Err and `?` returns it from run; the closure
\* may have run, list and statistics query included, before the failure
DrawErr ==
    /\ pc = "draw"
    /\ pc' = "returned"
    /\ outcome' = "Err"
    /\ key' = "none"
    /\ selected_before' = None
    /\ \E closure_ran \in BOOLEAN, area_empty \in BOOLEAN :
         IF closure_ran
         THEN /\ list_state' = render_table_list(list_state, Len(table_names),
                                                 area_empty)
              /\ write_txn' = txn_of(get_database_stats(db_file.tables))
              /\ iter_stats_queries' = iter_stats_queries + 1
         ELSE UNCHANGED << list_state, write_txn, iter_stats_queries >>
    /\ UNCHANGED << overflow_checks, db_file, term_vars, table_names,
                    db_properties, selected_table_content, content_for, frame >>

\* get_database_stats unwraps an Err inside the draw closure, after the list
\* was rendered: the panic unwinds through run and main's match arm, where
\* the wrapper is alive
StatsPanic ==
    /\ pc = "draw"
    /\ pc' = "returned"
    /\ outcome' = "Panic"
    /\ key' = "none"
    /\ selected_before' = None
    /\ \E area_empty \in BOOLEAN :
         list_state' = render_table_list(list_state, Len(table_names), area_empty)
    \* begin_write failed, or stats failed and the transaction is dropped
    /\ write_txn' \in { write_txn, "aborted" }
    /\ iter_stats_queries' = iter_stats_queries + 1
    /\ UNCHANGED << overflow_checks, db_file, term_vars, table_names,
                    db_properties, selected_table_content, content_for, frame >>

\* a failed event read that leaves the loop with Ok
ReadErrReturnsOk ==
    /\ pc = "read"
    /\ pc' = "returned"
    /\ outcome' = "Ok"
    /\ UNCHANGED << overflow_checks, db_file, term_vars, tui_vars, key,
                    selected_before, frame, stat_vars >>

\* event::read() returns Err and `?` returns it from run
ReadErr ==
    /\ pc = "read"
    /\ pc' = "returned"
    /\ outcome' = "Err"
    /\ UNCHANGED << overflow_checks, db_file, term_vars, tui_vars, key,
                    selected_before, frame, stat_vars >>

\* KeyCode::Char('q'): return Ok(())
KeyQuit ==
    /\ pc = "read"
    /\ key' = "q"
    /\ selected_before' = list_state
    /\ pc' = "returned"
    /\ outcome' = "Ok"
    /\ UNCHANGED << overflow_checks, db_file, term_vars, tui_vars, frame, stat_vars >>

\* KeyCode::Down => self.next()
KeyDown ==
    /\ pc = "read"
    /\ key' = "Down"
    /\ selected_before' = list_state
    /\ IF overflow_checks /\ next_overflows(list_state, Len(table_names))
       THEN /\ pc' = "returned"
            /\ outcome' = "Panic"
            /\ UNCHANGED << list_state, selected_table_content, content_for >>
       ELSE /\ list_state' = Some(next_index(list_state, Len(table_names)))
            /\ selected_table_content' =
                 update_selected_table_content(list_state', table_names,
                                               selected_table_content)
            /\ content_for' = update_content_for(list_state', table_names, content_for)
            /\ pc' = "draw"
            /\ UNCHANGED outcome
    /\ iter_stats_queries' = 0
    /\ UNCHANGED << overflow_checks, db_file, term_vars, table_names,
                    db_properties, frame, write_txn >>

\* KeyCode::Up => self.previous()
KeyUp ==
    /\ pc = "read"
    /\ key' = "Up"
    /\ selected_before' = list_state
    /\ IF overflow_checks /\ previous_overflows(list_state, Len(table_names))
       THEN /\ pc' = "returned"
            /\ outcome' = "Panic"
            /\ UNCHANGED << list_state, selected_table_content, content_for >>
       ELSE /\ list_state' = Some(previous_index(list_state, Len(table_names)))
            /\ selected_table_content' =
                 update_selected_table_content(list_state', table_names,
                                               selected_table_content)
            /\ content_for' = update_content_for(list_state', table_names, content_for)
            /\ pc' = "draw"
            /\ UNCHANGED outcome
    /\ iter_stats_queries' = 0
    /\ UNCHANGED << overflow_checks, db_file, term_vars, table_names,
                    db_properties, frame, write_txn >>

\* any other key: `_ => {}`
KeyOther ==
    /\ pc = "read"
    /\ key' = "other"
    /\ selected_before' = list_state
    /\ pc' = "draw"
    /\ iter_stats_queries' = 0
    /\ UNCHANGED << outcome, overflow_checks, db_file, term_vars, tui_vars, frame,
                    write_txn >>

\* an event that is not Event::Key (resize, mouse, focus): the `if let` fails
OtherEvent ==
    /\ pc = "read"
    /\ key' = "none"
    /\ selected_before' = list_state
    /\ pc' = "draw"
    /\ iter_stats_queries' = 0
    /\ UNCHANGED << outcome, overflow_checks, db_file, term_vars, tui_vars, frame,
                    write_txn >>

(***************************************************************************)
(* Drop for TuiWrapper: runs when main's match arm ends, after run         *)
(* returned or while a panic unwinds through it.  Each of its two calls is *)
(* followed by expect: an Err panics, and a panic while already unwinding  *)
(* aborts the process.                                                     *)
(***************************************************************************)
DropOutcome(before, panicked) ==
    IF ~panicked THEN before
    ELSE IF before = "Panic" THEN "Abort" ELSE "Panic"

\* Drop that disables raw mode but never leaves the alternate screen
DropWithoutLeaveAlternateScreen ==
    /\ pc = "returned"
    /\ wrapper
    /\ \E disable_ok \in BOOLEAN :
         /\ raw_mode' = IF disable_ok THEN FALSE ELSE raw_mode
         /\ outcome' = DropOutcome(outcome, ~disable_ok)
    /\ UNCHANGED alt_screen
    /\ drops' = drops + 1
    /\ wrapper' = FALSE
    /\ pc' = "exit"
    /\ UNCHANGED << overflow_checks, db_file, raw_enters, tui_vars, key,
                    selected_before, frame, stat_vars >>

DropTuiWrapper ==
    /\ pc = "returned"
    /\ wrapper
    /\ \E disable_ok \in BOOLEAN, leave_ok \in BOOLEAN :
         /\ raw_mode' = IF disable_ok THEN FALSE ELSE raw_mode
         /\ alt_screen' = IF disable_ok /\ leave_ok THEN FALSE ELSE alt_screen
         /\ outcome' = DropOutcome(outcome, ~(disable_ok /\ leave_ok))
    /\ drops' = drops + 1
    /\ wrapper' = FALSE
    /\ pc' = "exit"
    /\ UNCHANGED << overflow_checks, db_file, raw_enters, tui_vars, key,
                    selected_before, frame, stat_vars >>

\* The length of the database file changes while the session runs: the
\* file is a file of the file system, whatever lock the handle holds.
FileLengthChanges ==
    /\ wrapper
    /\ pc \in { "draw", "read" }
    /\ \E n \in FileLens \ { db_file.len } :
         db_file' = [db_file EXCEPT !.len = n]
    /\ UNCHANGED << pc, outcome, overflow_checks, term_vars, tui_vars, key,
                    selected_before, frame, stat_vars >>

Next ==
    \/ CreateDummyDatabase /\ UNCHANGED trail
    \/ TuiWrapperNewOk /\ UNCHANGED trail
    \/ TuiWrapperNewErr /\ UNCHANGED trail
    \/ DrawFrame /\ UNCHANGED trail
    \/ DrawErr /\ UNCHANGED trail
    \/ StatsPanic /\ UNCHANGED trail
    \/ ReadErr /\ UNCHANGED trail
    \/ KeyQuit /\ UNCHANGED trail
    \/ KeyDown /\ UNCHANGED trail
    \/ KeyUp /\ UNCHANGED trail
    \/ KeyOther /\ UNCHANGED trail
    \/ OtherEvent /\ UNCHANGED trail
    \/ DropTuiWrapper /\ UNCHANGED trail
    \/ FileLengthChanges /\ UNCHANGED trail

Spec == Init /\ [][Next]_vars

(***************************************************************************)
(* Navigation on its own: Tui::next and Tui::previous applied to every     *)
(* value of the selection cursor over a non-empty table list, a valid      *)
(* index or None, with the session waiting for an event.  The content is   *)
(* the empty one of Tui::new while the cursor has not moved and the one of *)
(* the last refresh otherwise.  A session over a non-empty list never has  *)
(* the cursor None; the functions are applied to it here all the same.     *)
(***************************************************************************)
Cursors(n) == { None } \cup { Some(i) : i \in 0..(n - 1) }

InitNav ==
    /\ pc = "read"
    /\ outcome = "running"
    /\ overflow_checks \in BOOLEAN
    /\ db_file \in { [exists |-> TRUE, tables |-> d, len |-> n] :
                       d \in { e \in ExistingDatabases : Len(e) >= 1 }
                             \cup DummyDatabases,
                       n \in FileLens }
    /\ raw_mode = TRUE
    /\ alt_screen = TRUE
    /\ raw_enters = 1
    /\ drops = 0
    /\ wrapper = TRUE
    /\ table_names = tui_table_names(db_file.tables)
    /\ list_state \in Cursors(Len(table_names))
    /\ db_properties = tui_db_properties(db_file, table_names)
    /\ content_for \in IF list_state = None THEN { None }
                        ELSE IF list_state = Some(0) THEN { None, list_state }
                        ELSE { list_state }
    /\ selected_table_content = IF content_for = None
                                THEN tui_selected_table_content
                                ELSE DummyContent
    /\ key = "none"
    /\ selected_before = None
    /\ frame = [drawn |-> TRUE,
                title |-> selected_table(list_state, table_names),
                content |-> selected_table_content,
                selected |-> list_state,
                content_for |-> content_for,
                status |-> bottom_status(db_properties,
                                         DatabaseStats(db_file.tables))]
    /\ write_txn = "aborted"
    /\ iter_stats_queries = 1
    /\ trail = << >>

NextNav ==
    \/ KeyDown /\ UNCHANGED trail
    \/ KeyUp /\ UNCHANGED trail
    \/ DrawFrame /\ UNCHANGED trail

\* the navigation keys of the last MaxTrail loop iterations
MaxTrail == 4
Recorded(k) ==
    LET all == Append(trail, [key |-> k, before |-> list_state])
    IN  IF Len(all) > MaxTrail THEN Tail(all) ELSE all

NextNavRecorded ==
    \/ KeyDown /\ trail' = Recorded("Down")
    \/ KeyUp /\ trail' = Recorded("Up")
    \/ DrawFrame /\ UNCHANGED trail

SpecNav == InitNav /\ [][NextNavRecorded]_vars

(***************************************************************************)
(* The content refresh on its own: the session has drawn its first frame   *)
(* and waits for an event while one of the tables listed at startup is no  *)
(* longer in the database file, so that opening it would fail.             *)
(***************************************************************************)
WithoutTable(tables, j) == SubSeq(tables, 1, j - 1) \o SubSeq(tables, j + 1, Len(tables))
TableExists(name, tables) == \E k \in 1..Len(tables) : tables[k].name = name

InitDropped ==
    /\ pc = "read"
    /\ outcome = "running"
    /\ overflow_checks \in BOOLEAN
    /\ \E listed \in { e \in ExistingDatabases : Len(e) >= 1 } \cup DummyDatabases :
         /\ table_names = tui_table_names(listed)
         /\ \E j \in 1..Len(listed) :
              \E n \in FileLens :
                db_file = [exists |-> TRUE, tables |-> WithoutTable(listed, j),
                           len |-> n]
    /\ raw_mode = TRUE
    /\ alt_screen = TRUE
    /\ raw_enters = 1
    /\ drops = 0
    /\ wrapper = TRUE
    /\ list_state = tui_list_state(table_names)
    /\ db_properties = tui_db_properties(db_file, table_names)
    /\ content_for = None
    /\ selected_table_content = tui_selected_table_content
    /\ key = "none"
    /\ selected_before = None
    /\ frame = [drawn |-> TRUE,
                title |-> selected_table(list_state, table_names),
                content |-> selected_table_content,
                selected |-> list_state,
                content_for |-> content_for,
                status |-> bottom_status(db_properties,
                                         DatabaseStats(db_file.tables))]
    /\ write_txn = "aborted"
    /\ iter_stats_queries = 1
    /\ trail = << >>

SpecDropped == InitDropped /\ [][NextNav]_vars

(***************************************************************************)
(* Claims                                                                  *)
(***************************************************************************)
NumTables == Len(table_names)
\* the loop has just handled a Down or Up key and not yet drawn again
JustNavigated == wrapper /\ pc = "draw" /\ key \in { "Down", "Up" }
\* the table of the database file the selection denotes
SelectedEntries == db_file.tables[Unwrap(list_state) + 1].entries

\* C1: with at least one table, in every state of the session the selection
\* cursor is Some(i) with 0 <= i < N, whatever Down and Up keys were handled.
C1_CursorAlwaysValid ==
    (wrapper /\ NumTables >= 1)
        => (IsSome(list_state) /\ Unwrap(list_state) \in 0..(NumTables - 1))

\* C1 witness: an Up key at index 0 of a list of at least two tables has
\* wrapped the cursor to the last index.
C1_Witness ==
    /\ JustNavigated
    /\ key = "Up"
    /\ NumTables >= 2
    /\ selected_before = Some(0)
    /\ list_state = Some(NumTables - 1)

\* C2 (as claimed): with no tables, a Down or Up key is a no-op: afterwards
\* the cursor is None, nothing panicked and the session is still running.
C2_EmptyListNavigationIsNoOp ==
    (wrapper /\ NumTables = 0 /\ key \in { "Down", "Up" })
        => (list_state = None /\ outcome = "running" /\ pc = "draw")

\* C3: with at least one table, Down moves Some(i) to Some((i + 1) mod N)
\* and None to Some(0).
C3_AdvanceIsSuccessorModN ==
    (JustNavigated /\ key = "Down" /\ NumTables >= 1)
        => list_state = IF IsSome(selected_before)
                        THEN Some((Unwrap(selected_before) + 1) % NumTables)
                        ELSE Some(0)

\* C3 witness: Down was handled with no selection and selected index 0.
C3_Witness ==
    /\ JustNavigated
    /\ key = "Down"
    /\ NumTables >= 1
    /\ selected_before = None
    /\ list_state = Some(0)

\* C4: with at least one table, Up moves Some(i) to Some((i - 1 + N) mod N)
\* and None to Some(0).
C4_RetreatIsPredecessorModN ==
    (JustNavigated /\ key = "Up" /\ NumTables >= 1)
        => list_state = IF IsSome(selected_before)
                        THEN Some((Unwrap(selected_before) - 1 + NumTables) % NumTables)
                        ELSE Some(0)

\* C4 witness: Up was handled with no selection and selected index 0.
C4_Witness ==
    /\ JustNavigated
    /\ key = "Up"
    /\ NumTables >= 1
    /\ selected_before = None
    /\ list_state = Some(0)

\* C5 (as claimed): right after Tui::new, before the first draw, the cursor
\* is Some(0) when there are tables and None when there are none.
C5_InitialCursor ==
    (wrapper /\ pc = "draw" /\ ~frame.drawn)
        => list_state = IF NumTables > 0 THEN Some(0) ELSE None

\* C6 (as claimed): in every drawn frame whose cursor denotes a table, the
\* content shown was filled for that very selection; it is never content
\* that was never loaded or that was loaded for another table.
C6_FrameShowsSelectedTable ==
    (frame.drawn /\ DenotesTable(frame.selected, table_names))
        => frame.content_for = frame.selected

\* C7 (as claimed): when the process has ended, on whatever path, the
\* terminal is out of raw mode and out of the alternate screen, and Drop ran
\* once for each time raw mode was entered.
C7_TerminalRestoredOnEveryExit ==
    pc = "exit" => (~raw_mode /\ ~alt_screen /\ drops = raw_enters)

C9_OnePairPerEntry ==
    (JustNavigated /\ DenotesTable(list_state, table_names))
        => Len(selected_table_content) = Len(SelectedEntries)

\* The rendering the byte-length dispatch table of C10 prescribes for raw
\* bytes of length 0, 1, 2, 4 or 8.
DigitChars == << "0", "1", "2", "3", "4", "5", "6", "7", "8", "9" >>
RECURSIVE Decimal(_)
Decimal(n) ==
    IF n < 10 THEN << DigitChars[n + 1] >>
    ELSE Decimal(n \div 10) \o << DigitChars[(n % 10) + 1] >>
RECURSIVE LittleEndian(_)
LittleEndian(bytes) ==
    IF bytes = << >> THEN 0 ELSE bytes[1] + 256 * LittleEndian(Tail(bytes))
DispatchLengths == { 0, 1, 2, 4, 8 }
DispatchRendering(bytes) ==
    CASE Len(bytes) = 0 -> << "E", "m", "p", "t", "y" >>
      [] Len(bytes) = 1 /\ bytes[1] = 0 -> << "b", "o", "o", "l", ":", " ", "f", "a", "l", "s", "e" >>
      [] Len(bytes) = 1 /\ bytes[1] = 1 -> << "b", "o", "o", "l", ":", " ", "t", "r", "u", "e" >>
      [] Len(bytes) = 1 /\ bytes[1] > 1 -> << "u", "8", ":", " " >> \o Decimal(bytes[1])
      [] Len(bytes) = 2 -> << "u", "1", "6", ":", " " >> \o Decimal(LittleEndian(bytes))
      [] Len(bytes) = 4 -> << "u", "3", "2", ":", " " >> \o Decimal(LittleEndian(bytes))
      [] Len(bytes) = 8 -> << "u", "6", "4", ":", " " >> \o Decimal(LittleEndian(bytes))

\* C10 (as claimed): after a navigation onto a table, every key and value
\* of length 0, 1, 2, 4 or 8 is shown in the rendering of the dispatch table.
C10_RenderingFollowsDispatchTable ==
    (JustNavigated /\ DenotesTable(list_state, table_names))
        => \A j \in 1..Min(Len(selected_table_content), Len(SelectedEntries)) :
             \A side \in 1..2 :
               Len(SelectedEntries[j][side]) \in DispatchLengths
                 => selected_table_content[j][side]
                      = DispatchRendering(SelectedEntries[j][side])

C12_StartupFailureFatalCleanQuitOk ==
    /\ (pc = "exit" /\ drops = 0)
         => (outcome = "Err" /\ ~frame.drawn /\ key = "none" /\ ~wrapper)
    /\ (pc = "exit" /\ key = "q" /\ ~raw_mode /\ ~alt_screen)
         => outcome = "Ok"
    /\ (frame.drawn \/ key # "none") => raw_enters = 1

\* C12 witness: startup failed after the alternate screen was entered (the
\* database could not be opened, listed or measured) and main returned Err.
C12_Witness ==
    /\ pc = "exit"
    /\ drops = 0
    /\ alt_screen
    /\ outcome = "Err"
    /\ ~frame.drawn

\* C13 (as claimed): inside a session the cursor and the content change only
\* in a step that handles a Down or an Up key; drawing a frame, any other
\* key and any other event leave both as they were.
C13_OnlyNavigationChangesCursorAndContent ==
    [][(/\ wrapper
        /\ wrapper'
        /\ << list_state, selected_table_content >>'
             # << list_state, selected_table_content >>)
         => (pc = "read" /\ key' \in { "Down", "Up" })]_vars

\* The last k recorded keys, and whether they are all Down keys.
TrailFrom(k) == trail[Len(trail) - k + 1]
LastKeysAre(k, name) ==
    \A j \in (Len(trail) - k + 1)..Len(trail) : trail[j].key = name

\* C14: with at least one table, k consecutive Down keys from Some(i) leave
\* the cursor at Some((i + k) mod N), so N of them return it to Some(i); with
\* two tables one Up from index 0 gives index 1.
C14_ConsecutiveAdvancesAddModN ==
    NumTables >= 1 =>
      /\ \A k \in 1..Len(trail) :
           (LastKeysAre(k, "Down") /\ IsSome(TrailFrom(k).before))
             => list_state = Some((Unwrap(TrailFrom(k).before) + k) % NumTables)
      /\ (/\ NumTables = 2
          /\ Len(trail) >= 1
          /\ TrailFrom(1) = [key |-> "Up", before |-> Some(0)])
           => list_state = Some(1)

\* C14 witness: N >= 2 Down keys in a row have brought the cursor back to
\* the index it started from, which is not the first one.
C14_Witness ==
    /\ NumTables >= 2
    /\ Len(trail) >= NumTables
    /\ LastKeysAre(NumTables, "Down")
    /\ TrailFrom(NumTables).before = list_state
    /\ IsSome(list_state)
    /\ Unwrap(list_state) >= 1

\* C18: with at least one table and a valid cursor Some(i), a Down key
\* followed by an Up key, and an Up key followed by a Down key, both leave
\* the cursor at Some(i).
C18_AdvanceAndRetreatAreInverse ==
    (/\ NumTables >= 1
     /\ Len(trail) >= 2
     /\ << TrailFrom(2).key, TrailFrom(1).key >>
          \in { << "Down", "Up" >>, << "Up", "Down" >> }
     /\ IsSome(TrailFrom(2).before))
        => list_state = TrailFrom(2).before

\* C18 witness: from index 0 of at least two tables, Up wrapped to the last
\* index and Down wrapped back to index 0.
C18_Witness ==
    /\ NumTables >= 2
    /\ Len(trail) >= 2
    /\ TrailFrom(2) = [key |-> "Up", before |-> Some(0)]
    /\ TrailFrom(1) = [key |-> "Down", before |-> Some(NumTables - 1)]
    /\ list_state = Some(0)

\* C15: every frame shows the statistics of a query made in the same loop
\* iteration: when a frame has been drawn and the loop waits for an event,
\* exactly one statistics query was made since the last event and the frame
\* shows its result, the statistics of the database at that draw.
C15_FrameShowsStatsOfItsOwnQuery ==
    (wrapper /\ pc = "read")
        => /\ frame.drawn
           /\ iter_stats_queries = 1
           /\ frame.status.stats = get_database_stats(db_file.tables).stats

\* a second or later frame, drawn after a navigation key, with data stored
C15_Witness ==
    /\ wrapper
    /\ pc = "read"
    /\ IsSome(content_for)
    /\ iter_stats_queries = 1
    /\ frame.status.stats.stored_bytes > 0

\* C16 as stated: while the session runs, no step of the loop has begun a
\* write transaction on the database handle.
C16_NoWriteTransactionBegun ==
    wrapper => write_txn = "none"

\* C16 amended: the statistics query of every frame begins a write
\* transaction and drops it without a commit; no step of the loop commits a
\* write transaction, and none changes the tables stored in the file.
C16_WriteTransactionsNeverCommit ==
    /\ [](wrapper => /\ write_txn # "committed"
                     /\ pc = "read" => write_txn = "aborted")
    /\ [][(wrapper /\ wrapper') => db_file'.tables = db_file.tables]_vars

\* frames were drawn around a navigation key and its content refresh
C16_Witness ==
    /\ wrapper
    /\ pc = "read"
    /\ IsSome(content_for)
    /\ write_txn = "aborted"
    /\ db_file.tables # << >>

\* C17: the run loop is left with Ok only by the quit key: every step that
\* leaves the loop with Ok handles 'q' after a drawn frame, and a loop that
\* was left returned Ok on 'q', or returned an error or panicked otherwise.
C17_OnlyQuitReturnsOk ==
    /\ [](pc = "returned"
            => /\ outcome \in { "Ok", "Err", "Panic" }
               /\ outcome = "Ok" <=> key = "q")
    /\ [][(pc \in { "draw", "read" } /\ pc' = "returned" /\ outcome' = "Ok")
            => (pc = "read" /\ frame.drawn /\ key' = "q")]_vars

\* the loop was left by the quit key after a navigation key was handled
C17_Witness ==
    /\ pc = "returned"
    /\ outcome = "Ok"
    /\ key = "q"
    /\ IsSome(content_for)

\* C19: the table names, the table count and the file size are those read
\* when the session was created; no later step changes them, and every frame
\* shows that count and that size, whatever the length of the file is by then.
C19_NamesCountAndSizeFixedAtStartup ==
    /\ [][(~wrapper /\ wrapper')
            => /\ table_names' = tui_table_names(db_file.tables)
               /\ db_properties'.num_tables = Len(table_names')
               /\ db_properties'.file_size = db_file.len]_vars
    /\ [][(wrapper /\ wrapper')
            => UNCHANGED << table_names, db_properties >>]_vars
    /\ [](frame.drawn
            => /\ frame.status.num_tables = Len(table_names)
               /\ frame.status.file_size = db_properties.file_size)

\* a frame drawn after a navigation key is on screen with the size read at
\* startup while the file has another length
C19_Witness ==
    /\ wrapper
    /\ pc = "read"
    /\ IsSome(content_for)
    /\ frame.status.file_size = db_properties.file_size
    /\ db_file.len # db_properties.file_size

====
